---- MODULE Spec2Model ----
(***************************************************************************)
(* A model of pmd_message: the keyword escape codec (MessageKeyword, in    *)
(* bin_database.rs) and the message store with its binary reader and       *)
(* writer (MessageBin, in lib.rs).                                         *)
(*                                                                         *)
(* A character is its Unicode code point, a string is a sequence of        *)
(* characters, a file is a sequence of bytes.                              *)
(***************************************************************************)
EXTENDS Integers, Sequences, FiniteSets, TLC

VARIABLES
    id_by_string,   \* MessageKeyword.id_by_string : name -> code-point
    string_by_id,   \* MessageKeyword.string_by_id : code-point -> name
    kw_op,          \* the codec call made on the table: "none", "encode", "decode"
    kw_in,          \* the argument of that call
    kw_out,         \* its result
    hash_to_id,     \* MessageBin.hash_to_id : hash -> index into message
    message,        \* MessageBin.message : <<hash, unk, text>> in order
    first_seen,     \* history: the hashes in the order of their first insert
    last_insert,    \* history: hash -> <<unk, text>> of its latest insert
    lookup,         \* the last message_by_hash call and its result
    pc,             \* "edit", then "written", "shuffled" or "patched", then "loaded"
    file,           \* the file produced by write (and then altered on disk)
    loaded,         \* the result of load_file
    lay_op,         \* "none", or "write" once write ran on lay_in
    lay_in,         \* byte lengths of the texts of a store, and the build
    lay_out         \* the offsets write computed for them

kw_vars == <<id_by_string, string_by_id, kw_op, kw_in, kw_out>>

bin_vars == <<hash_to_id, message, first_seen, last_insert, lookup, pc, file,
              loaded>>

lay_vars == <<lay_op, lay_in, lay_out>>

vars == <<kw_vars, bin_vars, lay_vars>>

----------------------------------------------------------------------------
(* Bounds of the model *)

\* longest text handed to MessageKeyword::encode / decode
MaxTextLen == 3

\* most messages in a store
MaxMsgs == 2

----------------------------------------------------------------------------
(* Characters and strings *)

BACKSLASH == 92
LBRACKET == 91
RBRACKET == 93

SeqsUpTo(S, n) == UNION {[1..k -> S] : k \in 0..n}

\* a BTreeMap as a function; insert replaces the value of a present key
EmptyMap == [k \in {} |-> 0]

MapInsert(m, k, v) == [x \in (DOMAIN m) \cup {k} |-> IF x = k THEN v ELSE m[x]]

----------------------------------------------------------------------------
(* bin_database.rs : the built-in keyword table *)

KEYWORD_ID ==
    << <<49409, <<79, 82, 65, 78, 71, 69>>>>  \* U+C101 ORANGE
    , <<49410, <<80, 73, 78, 75>>>>  \* U+C102 PINK
    , <<49411, <<82, 69, 68>>>>  \* U+C103 RED
    , <<49412, <<71, 82, 69, 69, 78>>>>  \* U+C104 GREEN
    , <<49413, <<76, 73, 71, 72, 84, 66, 76, 85, 69>>>>  \* U+C105 LIGHTBLUE
    , <<49414, <<89, 69, 76, 76, 79, 87>>>>  \* U+C106 YELLOW
    , <<49415, <<87, 72, 73, 84, 69>>>>  \* U+C107 WHITE
    , <<49416, <<71, 82, 65, 89>>>>  \* U+C108 GRAY
    , <<49417, <<80, 73, 78, 75>>>>  \* U+C109 PINK
    , <<49418, <<82, 69, 68>>>>  \* U+C10A RED
    , <<49419, <<66, 76, 65, 67, 75>>>>  \* U+C10B BLACK
    , <<49420, <<68, 65, 82, 75, 71, 82, 65, 89>>>>  \* U+C10C DARKGRAY
    , <<49421, <<68, 65, 82, 75, 71, 82, 69, 69, 78>>>>  \* U+C10D DARKGREEN
    , <<49422, <<66, 76, 85, 69>>>>  \* U+C10E BLUE
    , <<49423, <<67, 79, 76, 79, 82, 69, 78, 68>>>>  \* U+C10F COLOREND
    , <<49664, <<67, 69, 78, 84, 69, 82>>>>  \* U+C200 CENTER
    , <<53504, <<80, 76, 65, 89, 69, 82, 78, 65, 77, 69>>>>  \* U+D100 PLAYERNAME
    , <<53760, <<80, 65, 82, 84, 78, 69, 82, 78, 65, 77, 69>>>>  \* U+D200 PARTNERNAME
    , <<54017, <<80, 76, 65, 89, 69, 82, 80, 79, 75, 69, 77, 79, 78>>>>  \* U+D301 PLAYERPOKEMON
    , <<54018, <<80, 65, 82, 84, 78, 69, 82, 80, 79, 75, 69, 77, 79, 78>>>>  \* U+D302 PARTNERPOKEMON
    , <<41074, <<80, 79, 75, 69>>>>  \* U+A072 POKE
    , <<41115, <<66, 85, 84, 84, 79, 78, 65>>>>  \* U+A09B BUTTONA
    , <<41116, <<66, 85, 84, 84, 79, 78, 66>>>>  \* U+A09C BUTTONB
    , <<41117, <<66, 85, 84, 84, 79, 78, 88>>>>  \* U+A09D BUTTONX
    , <<41118, <<66, 85, 84, 84, 79, 78, 89>>>>  \* U+A09E BUTTONY
    , <<41119, <<66, 85, 84, 84, 79, 78, 76>>>>  \* U+A09F BUTTONL
    , <<41120, <<66, 85, 84, 84, 79, 78, 82>>>>  \* U+A0A0 BUTTONR
    , <<45568, <<83, 80, 69, 65, 75, 69, 82, 78, 79, 82, 77, 65, 76>>>>  \* U+B200 SPEAKERNORMAL
    , <<45569, <<83, 80, 69, 65, 75, 69, 82, 72, 65, 80, 80, 89>>>>  \* U+B201 SPEAKERHAPPY
    , <<45570, <<83, 80, 69, 65, 75, 69, 82, 80, 65, 73, 78, 69, 68>>>>  \* U+B202 SPEAKERPAINED
    , <<60160, <<80, 65, 85, 83, 69>>>>  \* U+EB00 PAUSE
    >>

----------------------------------------------------------------------------
(* bin_database.rs : MessageKeyword *)

\* a table value: the two maps of the struct
KwTable(ibs, sbi) == [id_by_string |-> ibs, string_by_id |-> sbi]

new_empty == KwTable(EmptyMap, EmptyMap)

\* add_keyword that keeps the code-point a name already has
AddToKeepFirst(tb, id, text) ==
    KwTable(IF text \in DOMAIN tb.id_by_string THEN tb.id_by_string
            ELSE MapInsert(tb.id_by_string, text, id),
            MapInsert(tb.string_by_id, id, text))

\* add_keyword on a table value
AddTo(tb, id, text) ==
    KwTable(MapInsert(tb.id_by_string, text, id),
            MapInsert(tb.string_by_id, id, text))

RECURSIVE AddAll(_, _, _)
AddAll(tb, entries, i) ==
    IF i > Len(entries) THEN tb
    ELSE AddAll(AddTo(tb, entries[i][1], entries[i][2]), entries, i + 1)

new_default == AddAll(new_empty, KEYWORD_ID, 1)

\* decode: one pass over the characters of input
RECURSIVE DecodeFrom(_, _, _, _)
DecodeFrom(sbi, input, i, result) ==
    IF i > Len(input) THEN result
    ELSE LET chara == input[i] IN
         IF chara \in DOMAIN sbi
         THEN DecodeFrom(sbi, input, i + 1,
                         result \o <<LBRACKET>> \o sbi[chara] \o <<RBRACKET>>)
         ELSE IF chara = LBRACKET
         THEN DecodeFrom(sbi, input, i + 1, result \o <<BACKSLASH, LBRACKET>>)
         ELSE IF chara = BACKSLASH
         THEN DecodeFrom(sbi, input, i + 1, result \o <<BACKSLASH, BACKSLASH>>)
         ELSE DecodeFrom(sbi, input, i + 1, Append(result, chara))

decode(sbi, input) == DecodeFrom(sbi, input, 1, <<>>)

\* Result<String, MessageKeywordEncodeError>: kind is "Ok" or the error's
\* variant, val the string (Ok), the character (UselessEscape, as a
\* one-character string) or the name (UnknownEscape)
Ok(s) == [kind |-> "Ok", val |-> s]
Err(variant, s) == [kind |-> variant, val |-> s]

\* an inner loop that takes the end of the input for a closing ']'
RECURSIVE ReadBracketLenient(_, _, _)
ReadBracketLenient(decoded, i, bracket_buffer) ==
    IF i > Len(decoded) THEN [closed |-> TRUE, buffer |-> bracket_buffer, next |-> i]
    ELSE IF decoded[i] = RBRACKET
    THEN [closed |-> TRUE, buffer |-> bracket_buffer, next |-> i + 1]
    ELSE ReadBracketLenient(decoded, i + 1, Append(bracket_buffer, decoded[i]))

\* the inner loop of encode: char_iter.next() until ']' ; i is the position
\* of the next character of char_iter
RECURSIVE ReadBracket(_, _, _)
ReadBracket(decoded, i, bracket_buffer) ==
    IF i > Len(decoded) THEN [closed |-> FALSE, buffer |-> bracket_buffer, next |-> i]
    ELSE IF decoded[i] = RBRACKET
    THEN [closed |-> TRUE, buffer |-> bracket_buffer, next |-> i + 1]
    ELSE ReadBracket(decoded, i + 1, Append(bracket_buffer, decoded[i]))

\* the outer loop of encode
RECURSIVE EncodeFrom(_, _, _, _)
EncodeFrom(ibs, decoded, i, result) ==
    IF i > Len(decoded) THEN Ok(result)
    ELSE LET chara == decoded[i] IN
         IF chara = BACKSLASH
         THEN IF i + 1 > Len(decoded) THEN Err("NoCharAfterEscape", <<>>)
              ELSE LET escaped_char == decoded[i + 1] IN
                   IF escaped_char \in {BACKSLASH, LBRACKET}
                   THEN EncodeFrom(ibs, decoded, i + 2, Append(result, escaped_char))
                   ELSE Err("UselessEscape", <<escaped_char>>)
         ELSE IF chara = LBRACKET
         THEN LET b == ReadBracket(decoded, i + 1, <<>>) IN
              IF ~b.closed THEN Err("NoCharInBracket", <<>>)
              ELSE IF b.buffer \notin DOMAIN ibs THEN Err("UnknownEscape", b.buffer)
              ELSE EncodeFrom(ibs, decoded, b.next, Append(result, ibs[b.buffer]))
         ELSE EncodeFrom(ibs, decoded, i + 1, Append(result, chara))

encode(ibs, decoded) == EncodeFrom(ibs, decoded, 1, <<>>)

----------------------------------------------------------------------------
(* Inputs of the keyword codec *)

\* code-points and names handed to add_keyword: two built-in code-points and
\* '[' itself; a built-in name and a fresh one
KwIds == {49411, 49418, LBRACKET}
KwNames == {<<82, 69, 68>>, <<65>>}

\* characters of the texts: '\', '[', ']', 'A' and a built-in code-point
KwAlphabet == {BACKSLASH, LBRACKET, RBRACKET, 65, 49411}

Bracketed(name) == <<LBRACKET>> \o name \o <<RBRACKET>>

\* "\[ [RED] \\", the source of test_message_keyword
TestSource == <<92, 91, 32, 91, 82, 69, 68, 93, 32, 92, 92>>

EncodeInputs ==
    SeqsUpTo(KwAlphabet, MaxTextLen)
    \cup {Bracketed(KEYWORD_ID[i][2]) : i \in DOMAIN KEYWORD_ID}
    \cup {TestSource, <<91, 82, 69, 68>>, <<92, 97>>}

DecodeInputs ==
    SeqsUpTo(KwAlphabet, MaxTextLen)
    \cup {<<KEYWORD_ID[i][1]>> : i \in DOMAIN KEYWORD_ID}

----------------------------------------------------------------------------
(* The keyword codec as a state machine: a table is built (new_empty or     *)
(* new_default, then add_keyword calls) and one encode or decode is applied *)
(* to it.                                                                   *)

\* the parts of the state a specification does not use
KwIdle ==
    /\ id_by_string = EmptyMap
    /\ string_by_id = EmptyMap
    /\ kw_op = "none"
    /\ kw_in = <<>>
    /\ kw_out = [kind |-> "Ok", val |-> <<>>]

BinIdle ==
    /\ hash_to_id = EmptyMap
    /\ message = <<>>
    /\ first_seen = <<>>
    /\ last_insert = EmptyMap
    /\ lookup = [hash |-> 0, result |-> [some |-> FALSE, val |-> <<>>]]
    /\ pc = "edit"
    /\ file = [status |-> "none", bytes |-> <<>>, sir0_offsets |-> <<>>,
               sir0_header_position |-> 0, sir0_footer_position |-> 0]
    /\ loaded = [status |-> "none", store |-> [hash_to_id |-> EmptyMap, message |-> <<>>]]

LayIdle ==
    /\ lay_op = "none"
    /\ lay_in = [lens |-> <<>>, overflow_checks |-> FALSE]
    /\ lay_out = [status |-> "none"]

KwInit ==
    /\ \E tb \in {new_empty, new_default} :
          /\ id_by_string = tb.id_by_string
          /\ string_by_id = tb.string_by_id
    /\ kw_op = "none"
    /\ kw_in = <<>>
    /\ kw_out = Ok(<<>>)
    /\ BinIdle
    /\ LayIdle

add_keyword(id, text) ==
    /\ kw_op = "none"
    /\ LET tb == AddTo(KwTable(id_by_string, string_by_id), id, text) IN
          /\ string_by_id' = tb.string_by_id
          /\ id_by_string' = tb.id_by_string
    /\ UNCHANGED <<kw_op, kw_in, kw_out>>
    /\ UNCHANGED <<bin_vars, lay_vars>>

AddKeyword == \E id \in KwIds, text \in KwNames : add_keyword(id, text)

Encode ==
    /\ kw_op = "none"
    /\ \E t \in EncodeInputs :
          /\ kw_in' = t
          /\ kw_out' = encode(id_by_string, t)
    /\ kw_op' = "encode"
    /\ UNCHANGED <<id_by_string, string_by_id>>
    /\ UNCHANGED <<bin_vars, lay_vars>>

Decode ==
    /\ kw_op = "none"
    /\ \E raw \in DecodeInputs :
          /\ kw_in' = raw
          /\ kw_out' = Ok(decode(string_by_id, raw))
    /\ kw_op' = "decode"
    /\ UNCHANGED <<id_by_string, string_by_id>>
    /\ UNCHANGED <<bin_vars, lay_vars>>

KwNext == AddKeyword \/ Encode \/ Decode

SpecKw == KwInit /\ [][KwNext]_vars

----------------------------------------------------------------------------
(* Properties of the keyword codec *)

IsDefaultTable ==
    /\ id_by_string = new_default.id_by_string
    /\ string_by_id = new_default.string_by_id

\* C1: for any table built by new_empty or new_default and add_keyword
\* calls, and every text t on which encode succeeds, decode(encode(t)) = t.
C1_RoundTrip ==
    (kw_op = "encode" /\ kw_out.kind = "Ok")
        => decode(string_by_id, kw_out.val) = kw_in

\* the position of the first ']' of t after position i, 0 when there is none
FirstClose(t, i) ==
    IF \E j \in (i + 1)..Len(t) : t[j] = RBRACKET
    THEN CHOOSE j \in (i + 1)..Len(t) :
            /\ t[j] = RBRACKET
            /\ \A k \in (i + 1)..(j - 1) : t[k] # RBRACKET
    ELSE 0

\* what C2 says encode returns on the rest of t from position i, out being
\* the output so far
RECURSIVE EncodeContract(_, _, _)
EncodeContract(t, i, out) ==
    IF i > Len(t) THEN Ok(out)
    ELSE LET close == FirstClose(t, i)
             name == SubSeq(t, i + 1, close - 1)
         IN  CASE t[i] = BACKSLASH /\ i = Len(t) -> Err("NoCharAfterEscape", <<>>)
               [] t[i] = BACKSLASH /\ i < Len(t) /\ t[i + 1] \notin {BACKSLASH, LBRACKET}
                    -> Err("UselessEscape", <<t[i + 1]>>)
               [] t[i] = BACKSLASH /\ i < Len(t) /\ t[i + 1] \in {BACKSLASH, LBRACKET}
                    -> EncodeContract(t, i + 2, Append(out, t[i + 1]))
               [] t[i] = LBRACKET /\ close = 0 -> Err("NoCharInBracket", <<>>)
               [] t[i] = LBRACKET /\ close # 0 /\ name \notin DOMAIN id_by_string
                    -> Err("UnknownEscape", name)
               [] t[i] = LBRACKET /\ close # 0 /\ name \in DOMAIN id_by_string
                    -> EncodeContract(t, close + 1, Append(out, id_by_string[name]))
               [] OTHER -> EncodeContract(t, i + 1, Append(out, t[i]))

\* C2: encode scans left to right and fails exactly on a trailing '\'
\* (NoCharAfterEscape), a '\' before a character other than '\' or '['
\* (UselessEscape of it), an unclosed '[' (NoCharInBracket) and a bracketed
\* name absent from the table (UnknownEscape of it), reporting the first one
\* met; otherwise it succeeds with '\\' and '\[' replaced by the literal
\* character, '[NAME]' by NAME's code-point and every other character copied.
C2_EncodeContract ==
    kw_op = "encode" => kw_out = EncodeContract(kw_in, 1, <<>>)

\* encode of the test's source under the default table: both escapes and a
\* keyword are replaced
C2_Witness ==
    /\ kw_op = "encode"
    /\ IsDefaultTable
    /\ kw_in = TestSource
    /\ kw_out = Ok(<<91, 32, 49418, 32, 92>>)

\* the code-point of the last entry of KEYWORD_ID that carries name
LastIdFor(name) ==
    LET last == CHOOSE i \in DOMAIN KEYWORD_ID :
                   /\ KEYWORD_ID[i][2] = name
                   /\ \A j \in DOMAIN KEYWORD_ID : KEYWORD_ID[j][2] = name => j <= i
    IN  KEYWORD_ID[last][1]

\* C3 as stated: under the default table, for every entry (id, NAME) of
\* KEYWORD_ID, decode of id yields "[NAME]" and encode("[NAME]") yields id.
C3_Original ==
    IsDefaultTable =>
        \A i \in DOMAIN KEYWORD_ID :
            /\ (kw_op = "decode" /\ kw_in = <<KEYWORD_ID[i][1]>>)
                  => kw_out = Ok(Bracketed(KEYWORD_ID[i][2]))
            /\ (kw_op = "encode" /\ kw_in = Bracketed(KEYWORD_ID[i][2]))
                  => kw_out = Ok(<<KEYWORD_ID[i][1]>>)

\* C3 amended: under the default table, for every entry (id, NAME) of
\* KEYWORD_ID, decode of id yields "[NAME]", and encode("[NAME]") yields the
\* code-point of the last entry named NAME: id itself for every entry but
\* (U+C102, PINK) and (U+C103, RED), whose names U+C109 and U+C10A take over.
C3_DefaultTable ==
    IsDefaultTable =>
        \A i \in DOMAIN KEYWORD_ID :
            /\ (kw_op = "decode" /\ kw_in = <<KEYWORD_ID[i][1]>>)
                  => kw_out = Ok(Bracketed(KEYWORD_ID[i][2]))
            /\ (kw_op = "encode" /\ kw_in = Bracketed(KEYWORD_ID[i][2]))
                  => /\ kw_out = Ok(<<LastIdFor(KEYWORD_ID[i][2])>>)
                     /\ (i \notin {2, 3} => kw_out = Ok(<<KEYWORD_ID[i][1]>>))
                     /\ (i = 2 => kw_out = Ok(<<49417>>))
                     /\ (i = 3 => kw_out = Ok(<<49418>>))

\* encode("[RED]") under the default table yields U+C10A
C3_Witness ==
    /\ IsDefaultTable
    /\ kw_op = "encode"
    /\ kw_in = Bracketed(<<82, 69, 68>>)
    /\ kw_out = Ok(<<49418>>)

----------------------------------------------------------------------------
(* lib.rs : MessageBin, the store *)

Some(v) == [some |-> TRUE, val |-> v]
None == [some |-> FALSE, val |-> <<>>]

\* a store value: the two fields of the struct
Store(h2i, msgs) == [hash_to_id |-> h2i, message |-> msgs]

\* MessageBin::default()
default == Store(EmptyMap, <<>>)

\* message_by_hash; positions are 0-based as in the code
message_by_hash(st, hash) ==
    IF hash \notin DOMAIN st.hash_to_id THEN None
    ELSE Some(st.message[st.hash_to_id[hash] + 1][3])

\* insert that drops a present hash and appends it anew
InsertMoveToEnd(st, hash, unk, text) ==
    LET kept == SelectSeq(st.message, LAMBDA m : m[1] # hash)
        msgs == Append(kept, <<hash, unk, text>>)
    IN  Store([h \in {msgs[i][1] : i \in DOMAIN msgs} |->
                  (CHOOSE i \in DOMAIN msgs : msgs[i][1] = h) - 1],
              msgs)

\* insert that reads the position after the push
InsertOffByOne(st, hash, unk, text) ==
    IF hash \notin DOMAIN st.hash_to_id
    THEN Store(MapInsert(st.hash_to_id, hash, Len(st.message) + 1),
               Append(st.message, <<hash, unk, text>>))
    ELSE st

\* insert on a store value
InsertInto(st, hash, unk, text) ==
    IF hash \notin DOMAIN st.hash_to_id
    THEN LET position == Len(st.message) IN
         Store(MapInsert(st.hash_to_id, hash, position),
               Append(st.message, <<hash, unk, text>>))
    ELSE LET position == st.hash_to_id[hash] IN
         Store(st.hash_to_id,
               [st.message EXCEPT ![position + 1] = <<hash, unk, text>>])

----------------------------------------------------------------------------
(* Inputs of the store *)

\* hashes and unk values whose four bytes differ, so that a byte order or a
\* field mix-up shows (0x00000102, 0x7FFFFFFF, 0x70605040; 0x01020304)
Hashes == {258, 2147483647, 1885360192}
Unks == {0, 16909060}

\* texts: empty, one character outside the basic plane (U+1F600, two UTF-16
\* units), and "a\0b"
Texts == {<<>>, <<128512>>, <<97, 0, 98>>}

----------------------------------------------------------------------------
(* The store as a state machine *)

Insert ==
    /\ pc = "edit"
    /\ \E hash \in Hashes, unk \in Unks, text \in Texts :
          /\ hash \in DOMAIN hash_to_id \/ Len(message) < MaxMsgs
          /\ LET st == InsertInto(Store(hash_to_id, message), hash, unk, text) IN
                /\ hash_to_id' = st.hash_to_id
                /\ message' = st.message
          /\ first_seen' = IF hash \in DOMAIN last_insert THEN first_seen
                           ELSE Append(first_seen, hash)
          /\ last_insert' = MapInsert(last_insert, hash, <<unk, text>>)
    \* the reference message_by_hash returned is not kept across a mutation
    /\ lookup' = [hash |-> 0, result |-> None]
    /\ UNCHANGED <<pc, file, loaded>>
    /\ UNCHANGED <<kw_vars, lay_vars>>

MessageByHash ==
    /\ pc = "edit"
    /\ \E hash \in Hashes :
          lookup' = [hash |-> hash,
                     result |-> message_by_hash(Store(hash_to_id, message), hash)]
    /\ UNCHANGED <<hash_to_id, message, first_seen, last_insert, pc, file, loaded>>
    /\ UNCHANGED <<kw_vars, lay_vars>>

----------------------------------------------------------------------------
(* Integers, bytes and UTF-16 *)

\* Offsets and lengths reach 2^32 and beyond, which the model checker's
\* integers do not: such a number is held as two digits in base 65536,
\* W(hi, lo) standing for hi * 65536 + lo.
W(hi, lo) == [hi |-> hi, lo |-> lo]

WNorm(hi, lo) == W(hi + (lo \div 65536), lo % 65536)

WOf(n) == WNorm(0, n)

WAdd(a, b) == WNorm(a.hi + b.hi, a.lo + b.lo)

WTimes12(a) == WNorm(a.hi * 12, a.lo * 12)

\* a modulo m, for m a divisor of 65536
WMod(a, m) == a.lo % m

\* a u32 holds 0 .. 2^32 - 1
FitsU32(a) == a.hi < 65536

\* a modulo 2^32: what a wrapping operation or an `as u32` cast leaves
WrapU32(a) == W(a.hi % 65536, a.lo)

\* back to an integer, for a value below 2^31
WInt(a) == a.hi * 65536 + a.lo

Zeros(n) == [i \in 1..n |-> 0]

U16LE(v) == <<v % 256, v \div 256>>

U32LE(v) == <<v % 256, (v \div 256) % 256, (v \div 65536) % 256, v \div 16777216>>

\* offsets are 0-based, sequences 1-based
ReadU16(bytes, off) == bytes[off + 1] + 256 * bytes[off + 2]

ReadU32(bytes, off) ==
    bytes[off + 1] + 256 * bytes[off + 2] + 65536 * bytes[off + 3]
        + 16777216 * bytes[off + 4]

RECURSIVE Concat(_, _)
Concat(seqs, i) == IF i > Len(seqs) THEN <<>> ELSE seqs[i] \o Concat(seqs, i + 1)

\* str::encode_utf16: a character above U+FFFF becomes a surrogate pair
Utf16Units(c) ==
    IF c < 65536 THEN <<c>>
    ELSE <<55296 + ((c - 65536) \div 1024), 56320 + ((c - 65536) % 1024)>>

encode_utf16(text) == Concat([i \in DOMAIN text |-> Utf16Units(text[i])], 1)

\* NullWideString::to_string: surrogate pairs are joined, a lone surrogate
\* becomes U+FFFD
RECURSIVE FromUtf16(_, _, _)
FromUtf16(units, i, acc) ==
    IF i > Len(units) THEN acc
    ELSE LET u == units[i] IN
         IF u >= 55296 /\ u <= 56319 /\ i < Len(units)
               /\ units[i + 1] >= 56320 /\ units[i + 1] <= 57343
         THEN FromUtf16(units, i + 2,
                        Append(acc, 65536 + (u - 55296) * 1024 + (units[i + 1] - 56320)))
         ELSE IF u >= 55296 /\ u <= 57343
         THEN FromUtf16(units, i + 1, Append(acc, 65533))
         ELSE FromUtf16(units, i + 1, Append(acc, u))

to_string(units) == FromUtf16(units, 1, <<>>)

Perms(n) == {p \in [1..n -> 1..n] : \A i, j \in 1..n : p[i] = p[j] => i = j}

Permuted(recs, p) == [i \in DOMAIN recs |-> recs[p[i]]]

\* the arrangements of recs
Arrangements(recs) == {Permuted(recs, p) : p \in Perms(Len(recs))}

----------------------------------------------------------------------------
(* lib.rs : MessageBin::write *)

MessageBinStringData(ptr, hash, unk) ==
    [string_pointer |-> ptr, string_hash |-> hash, unk |-> unk]

\* a sort left out: the records stay as they are
Unsorted(recs) == {recs}

\* sort_unstable_by_key leaves records of equal keys in an order that is not
\* specified: every arrangement in ascending key order is a possible outcome.

\* strings_data.sort_unstable_by_key(|e| e.string_hash), in write
SortedByHash(recs) ==
    {r \in Arrangements(recs) :
        \A i, j \in DOMAIN r : i < j => r[i].string_hash <= r[j].string_hash}

\* strings_data.sort_unstable_by_key(|e| e.string_pointer), in load_file
SortedByPointer(recs) ==
    {r \in Arrangements(recs) :
        \A i, j \in DOMAIN r : i < j => r[i].string_pointer <= r[j].string_pointer}

\* #[binwrite(little)]: the three fields in declaration order
RecordBytes(r) == U32LE(r.string_pointer) \o U32LE(r.string_hash) \o U32LE(r.unk)

\* the bytes written for one text with no code table: its UTF-16 units, low
\* byte first, and two zero bytes
binary_text_to_write(text) ==
    LET text_to_write == encode_utf16(text) IN
    Concat([i \in DOMAIN text_to_write |-> U16LE(text_to_write[i])], 1) \o <<0, 0>>

\* the text loop of write on the byte lengths of the texts: each record's
\* string_pointer is the running offset, advanced by try_into and checked_add
RECURSIVE TextLoop(_, _, _, _)
TextLoop(lens, i, text_current_offset, pointers) ==
    IF i > Len(lens)
    THEN [status |-> "Ok", text_current_offset |-> text_current_offset,
          pointers |-> pointers]
    ELSE IF ~FitsU32(lens[i])
    THEN [status |-> "TooBigError", text_current_offset |-> text_current_offset,
          pointers |-> pointers]
    ELSE IF ~FitsU32(WAdd(text_current_offset, lens[i]))
    THEN [status |-> "Overflow", text_current_offset |-> text_current_offset,
          pointers |-> pointers]
    ELSE TextLoop(lens, i + 1, WAdd(text_current_offset, lens[i]),
                  Append(pointers, text_current_offset))

\* the loop that pushes one offset per record, counting from 1
PushedOffsetsFromOne(string_meta_position, n) ==
    [k \in 1..n |->
        WrapU32(WAdd(string_meta_position, WrapU32(WTimes12(WrapU32(WOf(k))))))]

\* sir0_offsets.push(string_meta_position + (count as u32) * 12) for count in
\* 0..n, as a release build computes it (wrapping)
PushedOffsets(string_meta_position, n) ==
    [k \in 1..n |->
        WrapU32(WAdd(string_meta_position, WrapU32(WTimes12(WrapU32(WOf(k - 1))))))]

\* write ended before the footer: by an error returned, or by a panic
Stopped(status, wrapped) ==
    [status |-> status, wrapped |-> wrapped, pointers |-> <<>>, nb_to_seek |-> 0,
     string_meta_position |-> WOf(0), sir0_offsets |-> <<>>,
     sir0_header_position |-> WOf(0), header_pad |-> 0,
     sir0_footer_position |-> WOf(0)]

\* The offsets write computes, from the byte lengths of the texts, on a
\* stream that starts empty.  overflow_checks tells the build: with them
\* (debug) an overflowing + or * panics, without them (release) it wraps.
\* wrapped records that some value was reduced modulo 2^32.
WriteLayout(lens, overflow_checks) ==
    LET n == Len(lens)
        loop == TextLoop(lens, 1, WOf(16), <<>>)
    IN
    IF loop.status # "Ok" THEN Stopped(loop.status, FALSE)
    ELSE
    LET tco == loop.text_current_offset
        nb_to_seek == IF WMod(tco, 4) # 0 THEN 4 - WMod(tco, 4) ELSE 0
        \* text_current_offset += nb_to_seek
        pad_overflow == ~FitsU32(WAdd(tco, WOf(nb_to_seek)))
        \* file.seek(SeekFrom::Current(0)), a u64
        position == WAdd(tco, WOf(nb_to_seek))
    IN
    IF pad_overflow /\ overflow_checks THEN Stopped("panic", FALSE)
    ELSE IF ~FitsU32(position) THEN Stopped("TooBigError", pad_overflow)
    ELSE
    LET string_meta_position == position
        \* string_meta_position + (count as u32) * 12
        product(count) == WTimes12(WrapU32(WOf(count)))
        sum(count) == WAdd(string_meta_position, WrapU32(product(count)))
        offset_overflow ==
            \E count \in 0..(n - 1) :
                ~FitsU32(product(count)) \/ ~FitsU32(sum(count))
        pushed == PushedOffsets(string_meta_position, n)
        wrapped == pad_overflow \/ offset_overflow
        number_of_strings == WOf(n)
        string_relative_end_offset == WTimes12(number_of_strings)
        string_absolute_end_offset ==
            WAdd(string_meta_position, string_relative_end_offset)
        sentinel == WAdd(string_absolute_end_offset, WOf(4))
    IN
    IF offset_overflow /\ overflow_checks THEN Stopped("panic", FALSE)
    ELSE IF ~FitsU32(number_of_strings) THEN Stopped("TooBigError", wrapped)
    ELSE IF ~FitsU32(string_relative_end_offset) THEN Stopped("Overflow", wrapped)
    ELSE IF ~FitsU32(string_absolute_end_offset) THEN Stopped("Overflow", wrapped)
    ELSE IF ~FitsU32(sentinel) THEN Stopped("Overflow", wrapped)
    ELSE
    LET sir0_header_position == string_absolute_end_offset
        current_position == WAdd(sir0_header_position, WOf(8))
        header_pad == IF WMod(current_position, 16) # 0
                      THEN 16 - WMod(current_position, 16) ELSE 0
        sir0_footer_position == WAdd(current_position, WOf(header_pad))
    IN
    IF ~FitsU32(sir0_footer_position) THEN Stopped("TooBigError", wrapped)
    ELSE [status |-> "Ok", wrapped |-> wrapped, pointers |-> loop.pointers,
          nb_to_seek |-> nb_to_seek,
          string_meta_position |-> string_meta_position,
          sir0_offsets |-> <<WOf(4), WOf(8)>> \o pushed \o <<sentinel>>,
          sir0_header_position |-> sir0_header_position,
          header_pad |-> header_pad,
          sir0_footer_position |-> sir0_footer_position]

\* the records of write before the sort: one per message, in store order
StringsData(msgs, layout) ==
    [i \in DOMAIN msgs |->
        MessageBinStringData(WInt(layout.pointers[i]), msgs[i][1], msgs[i][2])]

\* The file write produces from the messages and the sorted records, for a
\* file below 2^31 bytes (its offsets are then plain integers).  The
\* container adapter (pmd_sir0) is outside this crate: what write hands to
\* write_sir0_footer and write_sir0_header is kept beside the bytes, and the
\* sixteen reserved bytes stay zero.
WriteFile(msgs, layout, strings_data) ==
    [status |-> layout.status,
     bytes |-> IF layout.status # "Ok" THEN <<>>
               ELSE Zeros(16)
                    \o Concat([i \in DOMAIN msgs |-> binary_text_to_write(msgs[i][3])], 1)
                    \o Zeros(layout.nb_to_seek)
                    \o Concat([i \in DOMAIN strings_data |-> RecordBytes(strings_data[i])], 1)
                    \o U32LE(Len(strings_data))
                    \o U32LE(WInt(layout.string_meta_position))
                    \o Zeros(layout.header_pad),
     sir0_offsets |-> [k \in DOMAIN layout.sir0_offsets |->
                         WInt(layout.sir0_offsets[k])],
     sir0_header_position |-> WInt(layout.sir0_header_position),
     sir0_footer_position |-> WInt(layout.sir0_footer_position)]

Write ==
    /\ pc = "edit"
    /\ \E overflow_checks \in BOOLEAN :
          LET lens == [i \in DOMAIN message |->
                          WOf(Len(binary_text_to_write(message[i][3])))]
              layout == WriteLayout(lens, overflow_checks)
          IN  IF layout.status = "Ok"
              THEN /\ \E strings_data \in
                            SortedByHash(StringsData(message, layout)) :
                         file' = WriteFile(message, layout, strings_data)
                   /\ pc' = "written"
              ELSE /\ file' = WriteFile(message, layout, <<>>)
                   /\ pc' = "failed"
    \* the result of an earlier message_by_hash is not looked at again
    /\ lookup' = [hash |-> 0, result |-> None]
    /\ UNCHANGED <<hash_to_id, message, first_seen, last_insert, loaded>>
    /\ UNCHANGED <<kw_vars, lay_vars>>

----------------------------------------------------------------------------
(* lib.rs : MessageBin::load_file *)

ReadRecord(bytes, off) ==
    MessageBinStringData(ReadU32(bytes, off), ReadU32(bytes, off + 4),
                         ReadU32(bytes, off + 8))

\* MessageBinSir0Header, read from the header the container points at
Sir0Header(f) ==
    [string_count |-> ReadU32(f.bytes, f.sir0_header_position),
     string_info_pointer |-> ReadU32(f.bytes, f.sir0_header_position + 4)]

\* the record table as it lies in the file
TableOf(f) ==
    LET h == Sir0Header(f) IN
    [i \in 1..h.string_count |->
        ReadRecord(f.bytes, h.string_info_pointer + 12 * (i - 1))]

\* NullWideString: 16-bit units up to the first zero unit
RECURSIVE ReadNullWide(_, _, _)
ReadNullWide(bytes, off, units) ==
    IF off + 2 > Len(bytes) THEN [ok |-> FALSE, units |-> units]
    ELSE LET u == ReadU16(bytes, off) IN
         IF u = 0 THEN [ok |-> TRUE, units |-> units]
         ELSE ReadNullWide(bytes, off + 2, Append(units, u))

\* the insert loop of load_file over the sorted records
RECURSIVE LoadLoop(_, _, _, _)
LoadLoop(bytes, strings_data, i, message_bin) ==
    IF i > Len(strings_data) THEN [status |-> "Ok", store |-> message_bin]
    ELSE LET string_data == strings_data[i]
             text == ReadNullWide(bytes, string_data.string_pointer, <<>>)
         IN  IF ~text.ok THEN [status |-> "BinReadError", store |-> default]
             ELSE LoadLoop(bytes, strings_data, i + 1,
                           InsertInto(message_bin, string_data.string_hash,
                                      string_data.unk, to_string(text.units)))

\* load_file with no code table, strings_data being the table after
\* sort_unstable_by_key(string_pointer)
load_file(f, strings_data) == LoadLoop(f.bytes, strings_data, 1, default)

\* the outcomes load_file can have on f
LoadResults(f) ==
    {load_file(f, strings_data) :
        strings_data \in SortedByPointer(TableOf(f))}

LoadFile ==
    /\ pc \in {"written", "patched", "shuffled"}
    /\ \E strings_data \in SortedByPointer(TableOf(file)) :
          loaded' = load_file(file, strings_data)
    /\ pc' = "loaded"
    /\ UNCHANGED <<hash_to_id, message, first_seen, last_insert, lookup, file>>
    /\ UNCHANGED <<kw_vars, lay_vars>>

----------------------------------------------------------------------------
(* The file on disk: load_file reads whatever record table the file holds,  *)
(* not only one write produced.                                             *)

\* f with the records of its table replaced by recs
WithTable(f, recs) ==
    LET start == Sir0Header(f).string_info_pointer
        table == Concat([i \in DOMAIN recs |-> RecordBytes(recs[i])], 1)
    IN  [f EXCEPT !.bytes =
            [k \in DOMAIN f.bytes |->
                IF k > start /\ k <= start + Len(table)
                THEN table[k - start] ELSE f.bytes[k]]]

\* the table holds the same records in another order
PermuteTable ==
    /\ pc = "written"
    /\ \E p \in Perms(Len(TableOf(file))) :
          /\ \E i \in DOMAIN p : p[i] # i
          /\ file' = WithTable(file, Permuted(TableOf(file), p))
    /\ pc' = "shuffled"
    /\ UNCHANGED <<hash_to_id, message, first_seen, last_insert, lookup, loaded>>
    /\ UNCHANGED <<kw_vars, lay_vars>>

\* one record points at the text of another, or carries the hash of another
PatchRecord ==
    /\ pc = "written"
    /\ LET table == TableOf(file) IN
       \E i, j \in DOMAIN table :
          /\ i # j
          /\ \/ file' = WithTable(file, [table EXCEPT ![i].string_pointer =
                                                       table[j].string_pointer])
             \/ file' = WithTable(file, [table EXCEPT ![i].string_hash =
                                                       table[j].string_hash])
    /\ pc' = "patched"
    /\ UNCHANGED <<hash_to_id, message, first_seen, last_insert, lookup, loaded>>
    /\ UNCHANGED <<kw_vars, lay_vars>>

BinInit == KwIdle /\ BinIdle /\ LayIdle

BinNext ==
    \/ Insert
    \/ MessageByHash
    \/ Write
    \/ PermuteTable
    \/ PatchRecord
    \/ LoadFile

SpecBin == BinInit /\ [][BinNext]_vars

----------------------------------------------------------------------------
(* write on stores of any size: the texts are given by their byte lengths   *)
(* (two per UTF-16 unit and two for the terminator).                        *)

\* 2, 4, 2^31, 2^32 - 48, - 32, - 22, - 20, - 18, - 16, and 2^32
TextLens ==
    {W(0, 2), W(0, 4), W(32768, 0), W(65535, 65488), W(65535, 65504),
     W(65535, 65514), W(65535, 65516), W(65535, 65518), W(65535, 65520),
     W(65536, 0)}

LayInit == KwIdle /\ BinIdle /\ LayIdle

WriteBig ==
    /\ lay_op = "none"
    /\ \E lens \in SeqsUpTo(TextLens, MaxMsgs), overflow_checks \in BOOLEAN :
          /\ lay_in' = [lens |-> lens, overflow_checks |-> overflow_checks]
          /\ lay_out' = WriteLayout(lens, overflow_checks)
    /\ lay_op' = "write"
    /\ UNCHANGED <<kw_vars, bin_vars>>

LayNext == WriteBig

SpecLayout == LayInit /\ [][LayNext]_vars

----------------------------------------------------------------------------
(* Properties of the store, of write and of load_file *)

HashesOf(msgs) == {msgs[i][1] : i \in DOMAIN msgs}

TriplesOf(msgs) == {msgs[i] : i \in DOMAIN msgs}

\* the files write can produce from msgs
WriteResults(msgs) ==
    LET lens == [i \in DOMAIN msgs |-> WOf(Len(binary_text_to_write(msgs[i][3])))]
        layout == WriteLayout(lens, FALSE)
    IN  IF layout.status # "Ok" THEN {}
        ELSE {WriteFile(msgs, layout, strings_data) :
                 strings_data \in SortedByHash(StringsData(msgs, layout))}

\* C4: for every store, write succeeds and load_file on the bytes written
\* returns a store with the same set of (hash, unk, text) triples.
C4_StoreRoundTrip ==
    /\ pc # "failed"
    /\ (pc = "loaded" /\ file \in WriteResults(message))
          => /\ loaded.status = "Ok"
             /\ TriplesOf(loaded.store.message) = TriplesOf(message)

C5_Order ==
    /\ [i \in DOMAIN message |-> message[i][1]] = first_seen
    /\ \A i, j \in DOMAIN message : message[i][1] = message[j][1] => i = j
    /\ \A i \in DOMAIN message :
          <<message[i][2], message[i][3]>> = last_insert[message[i][1]]

C5_Step ==
    message' # message =>
        \E hash \in Hashes, unk \in Unks, text \in Texts :
            IF \E i \in DOMAIN message : message[i][1] = hash
            THEN /\ Len(message') = Len(message)
                 /\ \A i \in DOMAIN message :
                       message'[i] = IF message[i][1] = hash
                                     THEN <<hash, unk, text>> ELSE message[i]
            ELSE message' = Append(message, <<hash, unk, text>>)

\* C5: after any sequence of inserts on an empty store, messages() holds each
\* hash once, in the order the hashes were first inserted, with the unk and
\* text of its latest insert; an insert of a present hash overwrites its unk
\* and text in place, moving no entry, and an insert of a fresh hash appends.
C5_InsertOrder == [](C5_Order) /\ [][C5_Step]_vars

\* a hash inserted again after another one keeps the first place
C5_Witness ==
    /\ pc = "edit"
    /\ Len(message) = 2
    /\ first_seen = <<2147483647, 258>>
    /\ message[1] = <<2147483647, 16909060, <<128512>>>>
    /\ message[2] = <<258, 0, <<>>>>

\* the index of a store agrees with its list
IndexAgrees(st) ==
    /\ DOMAIN st.hash_to_id = HashesOf(st.message)
    /\ \A h \in DOMAIN st.hash_to_id :
          /\ st.hash_to_id[h] >= 0
          /\ st.hash_to_id[h] < Len(st.message)
          /\ \A i \in DOMAIN st.message :
                st.message[i][1] = h <=> i = st.hash_to_id[h] + 1

\* C10: in every store built by inserts (those of load_file included),
\* hash_to_id has exactly the hashes of the list as keys and maps each to the
\* one index holding it; message_by_hash returns the text of the latest
\* insert of a hash, and None for a hash never inserted.
C10_Index ==
    /\ IndexAgrees(Store(hash_to_id, message))
    /\ IndexAgrees(loaded.store)
    /\ lookup.hash # 0 =>
          lookup.result = IF lookup.hash \in DOMAIN last_insert
                          THEN Some(last_insert[lookup.hash][2])
                          ELSE None

\* a lookup of the second of two hashes, the first having been inserted
C10_Witness ==
    /\ Len(message) = 2
    /\ lookup.hash = message[2][1]
    /\ hash_to_id[lookup.hash] = 1
    /\ lookup.result = Some(<<97, 0, 98>>)

\* the bytes of the file at offset off are the UTF-16 units of text, low byte
\* first, followed by a zero unit
TextAt(bytes, off, text) ==
    LET units == encode_utf16(text) IN
    /\ off + 2 * Len(units) + 2 <= Len(bytes)
    /\ \A k \in DOMAIN units :
          /\ bytes[off + 2 * k - 1] = units[k] % 256
          /\ bytes[off + 2 * k] = units[k] \div 256
    /\ bytes[off + 2 * Len(units) + 1] = 0
    /\ bytes[off + 2 * Len(units) + 2] = 0

\* the offset at which write emits the text of message k: after the 16
\* reserved bytes and the texts of the messages before it
RECURSIVE EmittedAt(_, _)
EmittedAt(msgs, k) ==
    IF k = 1 THEN 16
    ELSE EmittedAt(msgs, k - 1) + 2 * Len(encode_utf16(msgs[k - 1][3])) + 2

\* C7: the record table write produces holds one 12-byte record per message,
\* in ascending string_hash order whatever the store's order; each record has
\* the hash and unk of its message and points at the offset where that
\* message's zero-terminated text lies, the texts being emitted in store
\* order after the 16 reserved bytes.
C7_RecordTable ==
    pc = "written" =>
        LET h == Sir0Header(file)
            table == TableOf(file)
        IN  /\ h.string_count = Len(message)
            /\ file.sir0_header_position = h.string_info_pointer + 12 * Len(message)
            /\ \A i, j \in DOMAIN table :
                  i < j => table[i].string_hash < table[j].string_hash
            /\ \A k \in DOMAIN message :
                  \E i \in DOMAIN table :
                      /\ table[i].string_hash = message[k][1]
                      /\ table[i].unk = message[k][2]
                      /\ table[i].string_pointer = EmittedAt(message, k)
                      /\ TextAt(file.bytes, table[i].string_pointer, message[k][3])

\* two messages inserted in descending hash order, written in ascending one
C7_Witness ==
    /\ pc = "written"
    /\ Len(message) = 2
    /\ message[1][1] > message[2][1]
    /\ message[1][3] = <<128512>>
    /\ TableOf(file)[1].string_hash = message[2][1]
    /\ TableOf(file)[1].string_pointer = 22

\* the store load_file is to return for a file whose records point at
\* pairwise distinct offsets: the hashes by ascending first string_pointer,
\* each with the unk and text of its record of greatest string_pointer
LoadedAsPointersSay(f, st) ==
    LET table == TableOf(f)
        FirstPtr(h) == CHOOSE q \in {table[i].string_pointer : i \in DOMAIN table} :
                          /\ \E i \in DOMAIN table :
                                table[i].string_hash = h /\ table[i].string_pointer = q
                          /\ \A i \in DOMAIN table :
                                table[i].string_hash = h => q <= table[i].string_pointer
        LastRec(h) == CHOOSE i \in DOMAIN table :
                          /\ table[i].string_hash = h
                          /\ \A j \in DOMAIN table :
                                table[j].string_hash = h
                                    => table[j].string_pointer <= table[i].string_pointer
    IN  /\ HashesOf(st.message) = {table[i].string_hash : i \in DOMAIN table}
        /\ \A a, b \in DOMAIN st.message :
              a < b => FirstPtr(st.message[a][1]) < FirstPtr(st.message[b][1])
        /\ \A a \in DOMAIN st.message :
              LET r == table[LastRec(st.message[a][1])] IN
              /\ st.message[a][2] = r.unk
              /\ st.message[a][3] =
                    to_string(ReadNullWide(f.bytes, r.string_pointer, <<>>).units)

\* load_file returns the same store for every permutation of f's table
SameForEveryPermutation(f, result) ==
    \A p \in Perms(Len(TableOf(f))) :
        LoadResults(WithTable(f, Permuted(TableOf(f), p))) = {result}

DistinctPointers(f) ==
    \A i, j \in DOMAIN TableOf(f) :
        TableOf(f)[i].string_pointer = TableOf(f)[j].string_pointer => i = j

\* C8 as stated: load_file returns the same store for every permutation of
\* the same record table, the records being processed by ascending
\* string_pointer.
C8_Original ==
    pc = "loaded" => SameForEveryPermutation(file, loaded)

\* C8 amended: for a record table whose string_pointers are pairwise
\* distinct, load_file returns the same store for every permutation of the
\* table: the hashes in ascending string_pointer order, a repeated hash
\* keeping the place of its first processed record and the unk and text of
\* its last.
C8_PermutationIndependent ==
    (pc = "loaded" /\ DistinctPointers(file))
        => /\ loaded.status = "Ok"
           /\ SameForEveryPermutation(file, loaded)
           /\ LoadedAsPointersSay(file, loaded.store)

\* a table out of hash order and out of pointer order, with a repeated hash
C8_Witness ==
    /\ pc = "loaded"
    /\ DistinctPointers(file)
    /\ Len(TableOf(file)) = 2
    /\ TableOf(file)[1].string_pointer > TableOf(file)[2].string_pointer
    /\ TableOf(file)[1].string_hash = TableOf(file)[2].string_hash
    /\ TableOf(file)[1].unk # TableOf(file)[2].unk
    /\ Len(loaded.store.message) = 1
    /\ loaded.store.message[1][2] = TableOf(file)[1].unk

\* C9 as stated: the offsets handed to the footer writer are 4, 8, then
\* table_start + 12 * i for every record, then table_start + 12 * n.
C9_Original ==
    pc = "written" =>
        LET start == Sir0Header(file).string_info_pointer
            n == Len(message)
        IN  file.sir0_offsets =
                <<4, 8>> \o [i \in 1..n |-> start + 12 * (i - 1)] \o <<start + 12 * n>>

\* C9 amended: the offsets handed to the footer writer are n + 3 strictly
\* ascending entries: 4, 8, then table_start + 12 * i for every record in
\* table order, then table_start + 12 * n + 4, the offset of the
\* record-table pointer in the header written right after the table.
C9_FooterOffsets ==
    pc = "written" =>
        LET start == Sir0Header(file).string_info_pointer
            n == Len(message)
            offs == file.sir0_offsets
        IN  /\ Len(offs) = n + 3
            /\ \A i, j \in DOMAIN offs : i < j => offs[i] < offs[j]
            /\ offs = <<4, 8>> \o [i \in 1..n |-> start + 12 * (i - 1)]
                         \o <<start + 12 * n + 4>>
            /\ offs[n + 3] = file.sir0_header_position + 4
            /\ ReadU32(file.bytes, offs[n + 3]) = start

\* the offsets of a store of two messages
C9_Witness ==
    /\ pc = "written"
    /\ Len(message) = 2
    /\ file.sir0_offsets = <<4, 8, 24, 36, 52>>

\* the sum of the byte lengths
RECURSIVE WSum(_, _)
WSum(lens, i) == IF i > Len(lens) THEN WOf(0) ELSE WAdd(lens[i], WSum(lens, i + 1))

\* the greatest value write has to compute for texts of these lengths: the
\* offset after the header it writes behind the table, padded to 16
GreatestOffset(lens) ==
    LET texts_end == WAdd(WOf(16), WSum(lens, 1))
        table_start == WAdd(texts_end, WOf((4 - WMod(texts_end, 4)) % 4))
        header_end == WAdd(WAdd(table_start, WTimes12(WOf(Len(lens)))), WOf(8))
    IN  WAdd(header_end, WOf((16 - WMod(header_end, 16)) % 16))

\* C6: every offset computation of write is checked: when a value exceeds
\* the 32-bit range write returns Overflow or TooBigError, and it never
\* wraps or panics.
C6_Checked ==
    lay_op = "write" =>
        /\ lay_out.status # "panic"
        /\ ~lay_out.wrapped
        /\ lay_out.status = "Ok" <=> FitsU32(GreatestOffset(lay_in.lens))

====
